---- MODULE Spec2Model ----
(***************************************************************************)
(* Model of the live interview hook (useLiveInterview): the session        *)
(* lifecycle driven by connect()/disconnect() and the callbacks of the     *)
(* duplex connection, the capture pipeline and the timeline-based playback *)
(* scheduler.                                                              *)
(*                                                                         *)
(* Every invocation of connect() is a "call" k = 1, 2, ...; the resources  *)
(* it creates (output audio context, media stream, audio graph, interval   *)
(* timer, duplex connection) carry the same index k.  Time is counted in   *)
(* sample periods of the 24 kHz output clock, so the duration of a buffer  *)
(* of n samples is n.                                                      *)
(***************************************************************************)
EXTENDS Integers, Sequences, FiniteSets, TLC

\* ---- bounds of the model ----
\* The hook is explored along two budgets: several overlapping calls of
\* connect() with a short playback history, and one call of connect() with a
\* long one; a third budget follows the capture of one call.
MaxConnects == 2      \* calls of connect(), first budget
FewSegs     == 1      \* inbound audio segments scheduled, first budget
FewTicks    == 0      \* ticks of an output clock, first budget
MaxSegs     == 3      \* inbound audio segments scheduled, second budget
MaxClock    == 3      \* ticks of an output clock, second budget
MaxChars    == 6      \* base64 digits in the longest inbound payload

MaxChunks   == 2      \* audio chunks captured by one call, third budget
MaxIgnored  == 1      \* inbound messages without audio, third budget

ManyCalls  == [connects |-> MaxConnects, segs |-> FewSegs, ticks |-> FewTicks,
               chunks |-> 1, ignored |-> 0]
OneSession == [connects |-> 1, segs |-> MaxSegs, ticks |-> MaxClock,
               chunks |-> 0, ignored |-> 0]
Capture    == [connects |-> 1, segs |-> 1, ticks |-> 1,
               chunks |-> MaxChunks, ignored |-> MaxIgnored]

Calls == 1..MaxConnects

NoError == "null"
KeyMissingMessage == "API Key missing"
DeniedMessage     == "Permission denied"
ConnErrorMessage  == "Connection error occurred"
ConnectedLog      == "Connected to Interviewer"
ClosedLog         == "Connection closed"

VARIABLES
    \* observable state of the hook (useState)
    isConnected, isSpeaking, error, logs,
    \* references held by the hook (useRef); 0 is null
    audioContextRef, inputSourceRef, processorRef, sessionRef,
    nextStartTimeRef, videoIntervalRef,
    \* videoRef.current.srcObject; 0 is null
    srcObject,
    \* process.env.API_KEY is present
    apiKey,
    \* calls of connect(): how many were made, and where each one is
    nCalls, pc,
    \* output audio context of call k: its state and its currentTime
    ctxState, ctxTime,
    \* capture pipeline of call k
    cap,
    \* playback: every segment handed to source.start, in handling order
    \* (ctx: the context, now: its currentTime, cursor: nextStartTimeRef before,
    \* start, dur: the scheduled start and the duration, cut: a disconnect()
    \* ran before the next segment), and the indices of those whose "ended"
    \* event is still to come
    sched, pending,
    \* the call whose capture callback dispatched the most recent outbound
    \* media message; 0 before the first one
    lastSend,
    \* the resource operations the most recent disconnect() performed
    teardownOps,
    \* the calls that a disconnect() has run after
    torn,
    \* the calls whose connection the remote endpoint has acknowledged
    acked,
    \* the budget of this exploration (never changes)
    budget,
    \* whether the most recent outbound media message failed to be sent
    sendFailed,
    \* a media chunk on its way through the audio utilities, see the codec
    \* section
    codec,
    \* how many inbound messages without an audio payload were handled
    ignored,
    \* capture of call k: the numbers of its audio chunks in the order their
    \* sends were invoked, and the sends registered on its session promise
    \* that have not run yet (a chunk number, or 0 for a video frame)
    wire, reactions,
    \* the application (App): the parsed resume is present, the selected role
    \* (0 is null), the completed steps, the snapshot in localStorage, the
    \* route shown, and a resume upload being parsed
    resume, targetRole, completedSteps, saved, path, parsing,
    \* TechnicalQuizPage: the number of questions of the loaded quiz, and the
    \* state of the page
    quiz, loading, score, finished, currentQ,
    \* FullMockPage: the number of questions loaded, and the state of the page
    questions, mockLoading, current, mockFinished

appVars == <<resume, targetRole, completedSteps, saved, path, parsing,
             quiz, loading, score, finished, currentQ,
             questions, mockLoading, current, mockFinished>>

\* localStorage holds no snapshot
NoSnapshot == [resume |-> FALSE, targetRole |-> 0, completedSteps |-> <<>>,
               present |-> FALSE]

\* the state of a page that has just been mounted
PagesFresh ==
    /\ quiz = 0 /\ loading = FALSE /\ score = 0 /\ finished = FALSE /\ currentQ = 0
    /\ questions = 0 /\ mockLoading = FALSE /\ current = 0 /\ mockFinished = FALSE

\* App with an empty localStorage, at the upload page
AppStart ==
    /\ resume = FALSE
    /\ targetRole = 0
    /\ completedSteps = <<>>
    /\ saved = NoSnapshot
    /\ path = "/"
    /\ parsing = FALSE
    /\ PagesFresh


vars == <<isConnected, isSpeaking, error, logs, audioContextRef, inputSourceRef,
          processorRef, sessionRef, nextStartTimeRef, videoIntervalRef, srcObject,
          apiKey, nCalls, pc, ctxState, ctxTime, cap, sched,
          pending, lastSend, sendFailed, teardownOps, torn, acked, budget, codec, appVars, ignored, wire, reactions>>

observable == <<isConnected, isSpeaking, error, logs>>
refs == <<audioContextRef, inputSourceRef, processorRef, sessionRef, videoIntervalRef>>
playback == <<nextStartTimeRef, sched, pending>>
contexts == <<ctxState, ctxTime>>

Max(a, b) == IF a >= b THEN a ELSE b

\* a capture pipeline that was never set up
NoCapture == [src |-> FALSE, proc |-> FALSE, tracks |-> FALSE,
              handler |-> FALSE, timer |-> FALSE]

\* audioCtx.currentTime of the output context of call k
CurrentTime(k) == ctxTime[k]

\* no chunk is passing through the audio utilities
NoChunk == [stage |-> "idle"]

\* setLogs(prev => [...prev, msg])
addLog(l, msg) == Append(l, msg)

Init ==
    /\ isConnected = FALSE
    /\ isSpeaking = FALSE
    /\ error = NoError
    /\ logs = <<>>
    /\ audioContextRef = 0
    /\ inputSourceRef = 0
    /\ processorRef = 0
    /\ sessionRef = 0
    /\ nextStartTimeRef = 0
    /\ videoIntervalRef = 0
    /\ srcObject = 0
    /\ apiKey \in BOOLEAN
    /\ nCalls = 0
    /\ pc = [k \in Calls |-> "none"]
    /\ ctxState = [k \in Calls |-> "none"]
    /\ ctxTime = [k \in Calls |-> 0]
    /\ cap = [k \in Calls |-> NoCapture]
    /\ sched = <<>>
    /\ pending = {}
    /\ lastSend = 0
    /\ teardownOps = {}
    /\ torn = {}
    /\ acked = {}
    /\ budget \in {ManyCalls, OneSession, Capture}
    /\ sendFailed = FALSE
    /\ codec = NoChunk
    /\ ignored = 0
    /\ wire = [k \in Calls |-> <<>>]
    /\ reactions = [k \in Calls |-> <<>>]
    /\ AppStart

\* ---- connect() ----

\* faulty variant: the credential is checked after the output context is created
ConnectBodyLateKeyCheck(k) ==
    /\ nCalls' = k
    /\ audioContextRef' = k
    /\ ctxState' = [ctxState EXCEPT ![k] = "running"]
    /\ IF ~apiKey
       THEN /\ error' = KeyMissingMessage
            /\ isConnected' = FALSE
            /\ pc' = [pc EXCEPT ![k] = "failed"]
       ELSE /\ error' = NoError
            /\ pc' = [pc EXCEPT ![k] = "awaitMedia"]
            /\ UNCHANGED isConnected
    /\ UNCHANGED <<isSpeaking, logs, inputSourceRef, processorRef, sessionRef,
                   nextStartTimeRef, videoIntervalRef, srcObject, apiKey, ctxTime, cap,
                   sched, pending, lastSend, sendFailed, teardownOps, torn, acked, budget, codec, appVars, ignored, wire, reactions>>

\* connect(), up to its first suspension: the credential check, the output
\* audio context, the request for microphone and camera.
ConnectBody(k) ==
    /\ nCalls' = k
    /\ IF ~apiKey
       THEN \* throw new Error("API Key missing"), caught by the catch block
            /\ error' = KeyMissingMessage
            /\ isConnected' = FALSE
            /\ pc' = [pc EXCEPT ![k] = "failed"]
            /\ UNCHANGED <<audioContextRef, contexts>>
       ELSE /\ error' = NoError
            /\ audioContextRef' = k
            /\ ctxState' = [ctxState EXCEPT ![k] = "running"]
            /\ pc' = [pc EXCEPT ![k] = "awaitMedia"]
            /\ UNCHANGED <<isConnected, ctxTime>>
    /\ UNCHANGED <<isSpeaking, logs, inputSourceRef, processorRef, sessionRef,
                   nextStartTimeRef, videoIntervalRef, srcObject, apiKey, cap,
                   sched, pending, lastSend, sendFailed, teardownOps, torn, acked, budget, codec, appVars, ignored, wire, reactions>>

Connect ==
    /\ nCalls < budget.connects
    /\ ConnectBody(nCalls + 1)

\* faulty variant: the hook reports connected as soon as ai.live.connect is
\* called
MediaGrantedConnected(k) ==
    /\ cap' = [cap EXCEPT ![k] = [src |-> TRUE, proc |-> TRUE, tracks |-> TRUE,
                                  handler |-> FALSE, timer |-> FALSE]]
    /\ inputSourceRef' = k
    /\ processorRef' = k
    /\ srcObject' = k
    /\ sessionRef' = k
    /\ isConnected' = TRUE
    /\ pc' = [pc EXCEPT ![k] = "connecting"]
    /\ UNCHANGED <<isSpeaking, error, logs, audioContextRef, nextStartTimeRef,
                   videoIntervalRef, apiKey, nCalls, contexts, sched, pending,
                   lastSend, sendFailed, teardownOps, torn, acked, budget, codec, appVars,
                   ignored, wire, reactions>>

\* faulty variant: the capture handler is attached as soon as the graph is built
MediaGrantedCapturing(k) ==
    /\ cap' = [cap EXCEPT ![k] = [src |-> TRUE, proc |-> TRUE, tracks |-> TRUE,
                                  handler |-> TRUE, timer |-> FALSE]]
    /\ inputSourceRef' = k
    /\ processorRef' = k
    /\ srcObject' = k
    /\ sessionRef' = k
    /\ pc' = [pc EXCEPT ![k] = "connecting"]
    /\ UNCHANGED <<observable, audioContextRef, nextStartTimeRef, videoIntervalRef,
                   apiKey, nCalls, contexts, sched, pending, lastSend, sendFailed,
                   teardownOps, torn, acked, budget, codec, appVars, ignored, wire, reactions>>

\* getUserMedia resolved: the audio graph, the preview, and the call of
\* ai.live.connect; connect() returns with the connection not yet acknowledged.
MediaGrantedBody(k) ==
    /\ cap' = [cap EXCEPT ![k] = [src |-> TRUE, proc |-> TRUE, tracks |-> TRUE,
                                  handler |-> FALSE, timer |-> FALSE]]
    /\ inputSourceRef' = k
    /\ processorRef' = k
    /\ srcObject' = k
    /\ sessionRef' = k
    /\ pc' = [pc EXCEPT ![k] = "connecting"]
    /\ UNCHANGED <<observable, audioContextRef, nextStartTimeRef, videoIntervalRef,
                   apiKey, nCalls, contexts, sched, pending, lastSend, sendFailed,
                   teardownOps, torn, acked, budget, codec, appVars, ignored, wire, reactions>>

MediaGranted(k) ==
    /\ pc[k] = "awaitMedia"
    /\ MediaGrantedBody(k)

\* getUserMedia rejected: the catch block.
MediaDeniedBody(k) ==
    /\ error' = DeniedMessage
    /\ isConnected' = FALSE
    /\ pc' = [pc EXCEPT ![k] = "failed"]
    /\ UNCHANGED <<isSpeaking, logs, refs, nextStartTimeRef, srcObject, apiKey,
                   nCalls, contexts, cap, sched, pending, lastSend, sendFailed,
                   teardownOps, torn, acked, budget, codec, appVars, ignored, wire, reactions>>

MediaDenied(k) ==
    /\ pc[k] = "awaitMedia"
    /\ MediaDeniedBody(k)

\* ---- the session promise ----

\* faulty variant: the send of a chunk is invoked before the send of the
\* chunk captured before it
DispatchOvertaking(w, n) ==
    IF w = <<>> THEN <<n>>
    ELSE SubSeq(w, 1, Len(w) - 1) \o <<n, w[Len(w)]>>

\* the reaction of chunk n runs after those registered before it:
\* session.sendRealtimeInput is invoked with the chunk
Dispatch(w, n) == Append(w, n)

\* the reactions q registered on a session promise run, oldest first, when
\* the promise is fulfilled
RECURSIVE RunReactions(_, _)
RunReactions(w, q) ==
    IF q = <<>> THEN w
    ELSE RunReactions(IF Head(q) > 0 THEN Dispatch(w, Head(q)) ELSE w, Tail(q))

\* ---- callbacks of the duplex connection ----

AudioMime == "audio/pcm;rate=16000"
VideoMime == "image/jpeg"

\* onopen: the acknowledgement of the remote endpoint.  It marks the hook
\* connected, attaches the audio capture handler and starts the 1 s timer.
\* When the callback returns the session promise is fulfilled, and the sends
\* registered on it run.
OnOpenBody(k) ==
    /\ isConnected' = TRUE
    /\ logs' = addLog(logs, ConnectedLog)
    /\ cap' = [cap EXCEPT ![k].handler = TRUE, ![k].timer = TRUE]
    /\ videoIntervalRef' = k
    /\ pc' = [pc EXCEPT ![k] = "open"]
    /\ acked' = acked \cup {k}
    /\ wire' = [wire EXCEPT ![k] = RunReactions(@, reactions[k])]
    /\ reactions' = [reactions EXCEPT ![k] = <<>>]
    /\ IF reactions[k] = <<>>
       THEN UNCHANGED <<lastSend, sendFailed>>
       ELSE lastSend' = k /\ sendFailed' \in BOOLEAN
    /\ UNCHANGED <<isSpeaking, error, audioContextRef, inputSourceRef, processorRef,
                   sessionRef, nextStartTimeRef, srcObject, apiKey, nCalls, contexts,
                   sched, pending, teardownOps, torn, budget, codec, appVars, ignored>>

OnOpen(k) ==
    /\ pc[k] = "connecting"
    /\ OnOpenBody(k)

\* An inbound message, reduced to what the handler reads: whether the inline
\* data field is present, and the shape of its text: the number of characters
\* of the base64 alphabet, of trailing "=" and of characters outside the
\* alphabet.
NoAudio == [present |-> FALSE, chars |-> 0, pad |-> 0, alien |-> 0]

\* (a text with a character outside the alphabet is rejected whatever its
\* padding, so one padding stands for all)
Messages ==
    {NoAudio} \cup
    [present : {TRUE}, chars : 0..MaxChars, pad : 0..2, alien : {0}] \cup
    [present : {TRUE}, chars : 0..MaxChars, pad : {0}, alien : {1}]

\* msg.serverContent?.modelTurn?.parts?.[0]?.inlineData?.data is truthy
HasAudioData(m) == m.present /\ m.chars + m.pad + m.alien > 0

Throws == -1

\* atob (forgiving base64 decode), then one byte per character of the binary
\* string: the length of the Uint8Array, or Throws.
base64ToUint8Array(m) ==
    LET padded == m.pad > 0 /\ (m.chars + m.pad) % 4 = 0
        \* trailing "=" are removed only from a text whose length is a multiple of 4
        strays == m.alien + (IF padded THEN 0 ELSE m.pad)
    IN  IF strays > 0 \/ m.chars % 4 = 1
        THEN Throws
        ELSE (m.chars * 6) \div 8

\* new Float32Array(uint8Array.length / 2): the length is truncated (ToIndex)
SampleCount(nbytes) == nbytes \div 2

\* faulty variant: the segment starts at once, whatever is already scheduled
StartTimeNow(now, cursor) == now

\* startTime = Math.max(now, nextStartTimeRef.current)
StartTime(now, cursor) == Max(now, cursor)

\* faulty variant: the cursor does not move past the segment
NextStartSame(startTime, duration) == startTime

\* nextStartTimeRef.current = startTime + buffer.duration
NextStart(startTime, duration) == startTime + duration

\* The part of onmessage after setIsSpeaking(true), for a message with data.
\* closedThrows: whether this engine refuses to create a node on a closed
\* context.
Enqueue(m, closedThrows) ==
    LET audioCtx == audioContextRef
        nbytes   == base64ToUint8Array(m)
        samples  == SampleCount(nbytes)
    IN  IF audioCtx = 0 \/ nbytes = Throws
        THEN UNCHANGED playback
        ELSE IF samples = 0 \/ (ctxState[audioCtx] = "closed" /\ closedThrows)
        THEN \* createBuffer of 0 frames, or createBufferSource, throws
             UNCHANGED playback
        ELSE LET now       == CurrentTime(audioCtx)
                 startTime == StartTime(now, nextStartTimeRef)
             IN  /\ Len(sched) < budget.segs
                 /\ nextStartTimeRef' = NextStart(startTime, samples)
                 /\ sched' = Append(sched,
                        [ctx |-> audioCtx, now |-> now, cursor |-> nextStartTimeRef,
                         start |-> startTime, dur |-> samples, cut |-> FALSE])
                 /\ pending' = pending \cup {Len(sched) + 1}

\* Engines differ on createBufferSource() of a closed context: some throw
\* InvalidStateError, some return a node that never plays.
ClosedContextOutcomes ==
    IF audioContextRef # 0 /\ ctxState[audioContextRef] = "closed"
    THEN BOOLEAN ELSE {FALSE}

\* faulty variant: setIsSpeaking(true) runs for every inbound message
OnMessageAlwaysSpeaking(k, m, closedThrows) ==
    /\ isSpeaking' = TRUE
    /\ IF HasAudioData(m)
       THEN /\ Enqueue(m, closedThrows)
            /\ UNCHANGED ignored
       ELSE /\ ignored < budget.ignored
            /\ ignored' = ignored + 1
            /\ UNCHANGED playback
    /\ UNCHANGED <<isConnected, error, logs, refs, srcObject, apiKey, nCalls, pc,
                   contexts, cap, lastSend, sendFailed, teardownOps, torn, acked,
                   budget, codec, appVars, wire, reactions>>

OnMessageBody(k, m, closedThrows) ==
    /\ IF HasAudioData(m)
       THEN /\ isSpeaking' = TRUE
            /\ Enqueue(m, closedThrows)
            /\ UNCHANGED ignored
       ELSE /\ ignored < budget.ignored
            /\ ignored' = ignored + 1
            /\ UNCHANGED <<isSpeaking, playback>>
    /\ UNCHANGED <<isConnected, error, logs, refs, srcObject, apiKey, nCalls, pc,
                   contexts, cap, lastSend, sendFailed, teardownOps, torn, acked,
                   budget, codec, appVars, wire, reactions>>

OnMessage(k, m) ==
    /\ pc[k] = "open"
    /\ \E closedThrows \in ClosedContextOutcomes :
          OnMessageBody(k, m, closedThrows)

\* faulty variant: the end of any segment clears the speaking flag
OnEndedUnchecked(i) ==
    /\ isSpeaking' = FALSE
    /\ pending' = pending \ {i}
    /\ UNCHANGED <<isConnected, error, logs, refs, nextStartTimeRef, srcObject,
                   apiKey, nCalls, pc, contexts, cap, sched, lastSend, sendFailed,
                   teardownOps, torn, acked, budget, codec, appVars, ignored, wire, reactions>>

\* source.onended of the i-th scheduled segment
OnEndedBody(i) ==
    LET audioCtx == sched[i].ctx
    IN  /\ isSpeaking' = IF CurrentTime(audioCtx) >= nextStartTimeRef
                         THEN FALSE ELSE isSpeaking
        /\ pending' = pending \ {i}
        /\ UNCHANGED <<isConnected, error, logs, refs, nextStartTimeRef, srcObject,
                       apiKey, nCalls, pc, contexts, cap, sched, lastSend, sendFailed,
                       teardownOps, torn, acked, budget, codec, appVars, ignored, wire, reactions>>

OnEnded(i) ==
    /\ i \in pending
    /\ CurrentTime(sched[i].ctx) >= sched[i].start + sched[i].dur
    /\ OnEndedBody(i)

\* onerror: a transport error, before or after the acknowledgement
OnErrorBody(k) ==
    /\ error' = ConnErrorMessage
    /\ isConnected' = FALSE
    /\ pc' = [pc EXCEPT ![k] = "error"]
    /\ UNCHANGED <<isSpeaking, logs, refs, nextStartTimeRef, srcObject, apiKey,
                   nCalls, contexts, cap, sched, pending, lastSend, sendFailed,
                   teardownOps, torn, acked, budget, codec, appVars, ignored, wire, reactions>>

OnError(k) ==
    /\ pc[k] \in {"connecting", "open"}
    /\ OnErrorBody(k)

\* faulty variant: the remote close also rewinds the playback cursor
OnCloseResetsCursor(k) ==
    /\ isConnected' = FALSE
    /\ logs' = addLog(logs, ClosedLog)
    /\ pc' = [pc EXCEPT ![k] = "closed"]
    /\ nextStartTimeRef' = 0
    /\ UNCHANGED <<isSpeaking, error, refs, srcObject, apiKey,
                   nCalls, contexts, cap, sched, pending, lastSend, sendFailed,
                   teardownOps, torn, acked, budget, codec, appVars, ignored, wire, reactions>>

\* onclose: the remote endpoint closed, or the close that follows an error
OnCloseBody(k) ==
    /\ isConnected' = FALSE
    /\ logs' = addLog(logs, ClosedLog)
    /\ pc' = [pc EXCEPT ![k] = "closed"]
    /\ UNCHANGED <<isSpeaking, error, refs, nextStartTimeRef, srcObject, apiKey,
                   nCalls, contexts, cap, sched, pending, lastSend, sendFailed,
                   teardownOps, torn, acked, budget, codec, appVars, ignored, wire, reactions>>

OnClose(k) ==
    /\ pc[k] \in {"open", "error"}
    /\ OnCloseBody(k)

\* ---- capture ----

\* the audio chunks the processor of call k has delivered so far
ChunksCaptured(k) ==
    Len(wire[k]) + Cardinality({i \in 1..Len(reactions[k]) : reactions[k][i] > 0})

\* sessionPromise.then(session => session.sendRealtimeInput({media: {mimeType,
\* data}})), for audio chunk n or for a video frame (n = 0).  On a fulfilled
\* promise the reaction runs as soon as the capture callback returns; on a
\* pending one it waits.  A throw of sendRealtimeInput rejects the promise
\* returned by then(), which nobody holds.
sendRealtimeInput(k, mime, n) ==
    /\ IF k \in acked
       THEN /\ lastSend' = k
            /\ sendFailed' \in BOOLEAN
            /\ wire' = [wire EXCEPT ![k] = IF mime = AudioMime
                                           THEN Dispatch(@, n) ELSE @]
            /\ UNCHANGED reactions
       ELSE /\ reactions' = [reactions EXCEPT ![k] = Append(@, n)]
            /\ UNCHANGED <<lastSend, sendFailed, wire>>
    /\ UNCHANGED <<observable, refs, nextStartTimeRef, srcObject, apiKey, nCalls, pc,
                   contexts, cap, sched, pending, teardownOps, torn, acked, budget,
                   codec, appVars, ignored>>

\* processor.onaudioprocess: fires while the handler is attached and the
\* processor is connected to the destination of the input context
AudioProcess(k) ==
    /\ cap[k].handler
    /\ cap[k].proc
    /\ ChunksCaptured(k) < budget.chunks
    /\ sendRealtimeInput(k, AudioMime, ChunksCaptured(k) + 1)

\* the callback of window.setInterval(..., 1000)
VideoTick(k) ==
    /\ cap[k].timer
    /\ sendRealtimeInput(k, VideoMime, 0)

\* the clocks of all running audio contexts advance together; the clock of a
\* closed context stands still
Tick ==
    /\ \E k \in Calls : ctxState[k] = "running"
    /\ \A k \in Calls : ctxState[k] = "running" => ctxTime[k] < budget.ticks
    /\ ctxTime' = [k \in Calls |->
                     IF ctxState[k] = "running" THEN ctxTime[k] + 1 ELSE ctxTime[k]]
    /\ UNCHANGED <<observable, refs, nextStartTimeRef, srcObject, apiKey, nCalls, pc,
                   ctxState, cap, sched, pending, lastSend, sendFailed, teardownOps, torn, acked, budget, codec, appVars, ignored, wire, reactions>>

\* ---- disconnect() ----

\* the release of what the refs point at, the first part of disconnect()
Teardown ==
    /\ cap' = [k \in Calls |->
                 [src     |-> cap[k].src /\ k # inputSourceRef,
                  proc    |-> cap[k].proc /\ k # processorRef,
                  tracks  |-> cap[k].tracks /\ k # srcObject,
                  handler |-> cap[k].handler,
                  timer   |-> cap[k].timer /\ k # videoIntervalRef]]
    /\ ctxState' = [k \in Calls |->
                      IF k = audioContextRef THEN "closed" ELSE ctxState[k]]
    /\ srcObject' = 0
    /\ teardownOps' =
          (IF inputSourceRef # 0 THEN {"source.disconnect"} ELSE {}) \cup
          (IF processorRef # 0 THEN {"processor.disconnect"} ELSE {}) \cup
          (IF audioContextRef # 0 THEN {"audioContext.close"} ELSE {}) \cup
          (IF videoIntervalRef # 0 THEN {"clearInterval"} ELSE {}) \cup
          (IF srcObject # 0 THEN {"track.stop"} ELSE {})
    /\ torn' = torn \cup {k \in Calls : pc[k] # "none"}
    /\ sched' = [i \in 1..Len(sched) |->
                   IF i = Len(sched) THEN [sched[i] EXCEPT !.cut = TRUE] ELSE sched[i]]
    /\ UNCHANGED <<error, logs, refs, apiKey, nCalls, pc, ctxTime, pending,
                   lastSend, sendFailed, acked, budget, codec, appVars, ignored, wire, reactions>>

\* faulty variant: disconnect() leaves the playback cursor where it is
DisconnectKeepsCursor ==
    /\ Teardown
    /\ isConnected' = FALSE
    /\ isSpeaking' = FALSE
    /\ UNCHANGED nextStartTimeRef

Disconnect ==
    /\ Teardown
    /\ isConnected' = FALSE
    /\ isSpeaking' = FALSE
    /\ nextStartTimeRef' = 0

Next ==
    \/ Connect
    \/ \E k \in Calls : MediaGranted(k)
    \/ \E k \in Calls : MediaDenied(k)
    \/ \E k \in Calls : OnOpen(k)
    \/ \E k \in Calls, m \in Messages : OnMessage(k, m)
    \/ \E i \in 1..Len(sched) : OnEnded(i)
    \/ \E k \in Calls : OnError(k)
    \/ \E k \in Calls : OnClose(k)
    \/ \E k \in Calls : AudioProcess(k)
    \/ \E k \in Calls : VideoTick(k)
    \/ Tick
    \/ Disconnect

Spec == Init /\ [][Next]_vars

\* ---- audio utilities: the PCM and base64 codec ----
\* A sample is a multiple of 1/SampleGrid, held as its numerator; a decoded
\* sample is a multiple of 1/32768, held as its numerator.  A text is a
\* sequence of base64 digits 0..63 and Pad.

SampleGrid == 10      \* captured samples are multiples of 1/SampleGrid
MaxSamples == 2       \* samples in the longest captured chunk explored
MaxBytes   == 4       \* bytes in the longest byte buffer explored
ChunkSize  == 4096    \* createScriptProcessor(4096, 1, 1)
ByteValues == {0, 1, 127, 128, 255}

Min(a, b) == IF a <= b THEN a ELSE b

\* the integer part of p / q, rounded toward zero (q > 0)
Trunc(p, q) == IF p >= 0 THEN p \div q ELSE -((-p) \div q)

\* DataView.setInt16 stores its argument modulo 2^16, read back as signed
ToInt16(x) == ((x + 32768) % 65536) - 32768

\* faulty variant: both signs are scaled by 0x8000
Int16SampleSymmetric(n) ==
    LET s == Max(-SampleGrid, Min(SampleGrid, n))
    IN  ToInt16(Trunc(s * 32768, SampleGrid))

\* the 16-bit value of one sample: clamp to [-1, 1], scale by 0x8000 below
\* zero and by 0x7fff otherwise, convert to int16
Int16Sample(n) ==
    LET s == Max(-SampleGrid, Min(SampleGrid, n))
    IN  ToInt16(Trunc(IF s < 0 THEN s * 32768 ELSE s * 32767, SampleGrid))

\* faulty variant: the buffer holds one byte per sample
floatTo16BitPCMShort(float32Array) ==
    [j \in 1..Len(float32Array) |-> (Int16Sample(float32Array[j]) + 65536) % 256]

\* the byte buffer of a chunk: two bytes per sample, low byte first
floatTo16BitPCM(float32Array) ==
    [j \in 1..(Len(float32Array) * 2) |->
        LET u == (Int16Sample(float32Array[(j + 1) \div 2]) + 65536) % 65536
        IN  IF j % 2 = 1 THEN u % 256 ELSE u \div 256]

Pad == 64

\* btoa of the binary string of a byte buffer: four digits for every three
\* bytes, the last group padded
btoa(bytes) ==
    LET n == Len(bytes)
        byte(i) == IF i <= n THEN bytes[i] ELSE 0
    IN  [p \in 1..(((n + 2) \div 3) * 4) |->
            LET g  == (p - 1) \div 4
                r  == (p - 1) % 4
                b1 == byte(3 * g + 1)
                b2 == byte(3 * g + 2)
                b3 == byte(3 * g + 3)
            IN  CASE r = 0 -> b1 \div 4
                  [] r = 1 -> (b1 % 4) * 16 + b2 \div 16
                  [] r = 2 -> IF 3 * g + 2 > n THEN Pad
                              ELSE (b2 % 16) * 4 + b3 \div 64
                  [] r = 3 -> IF 3 * g + 3 > n THEN Pad ELSE b3 % 64]

\* the first nbytes bytes that the digits of a text spell
DecodeDigits(text, nbytes) ==
    LET digit(i) == IF i <= Len(text) /\ text[i] # Pad THEN text[i] ELSE 0
    IN  [j \in 1..nbytes |->
            LET g  == (j - 1) \div 3
                r  == (j - 1) % 3
                d1 == digit(4 * g + 1)
                d2 == digit(4 * g + 2)
                d3 == digit(4 * g + 3)
                d4 == digit(4 * g + 4)
            IN  CASE r = 0 -> d1 * 4 + d2 \div 16
                  [] r = 1 -> (d2 % 16) * 16 + d3 \div 4
                  [] r = 2 -> (d3 % 4) * 64 + d4]

\* the number of digits of a text once its padding is removed: one or two
\* trailing "=" of a text whose length is a multiple of 4
Unpadded(text) ==
    LET n == Len(text)
    IN  IF n > 0 /\ n % 4 = 0 /\ text[n] = Pad
        THEN IF text[n - 1] = Pad THEN n - 2 ELSE n - 1
        ELSE n

\* faulty variant: the digits of an incomplete last group are ignored
atobWholeGroups(text) ==
    LET d == Unpadded(text)
    IN  IF d % 4 = 1 \/ \E i \in 1..d : text[i] = Pad
        THEN <<Throws>>
        ELSE DecodeDigits(text, 3 * (d \div 4))

\* atob (forgiving base64 decode) and the copy of its binary string into a
\* Uint8Array: the bytes, or <<Throws>>
atob(text) ==
    LET d == Unpadded(text)
    IN  IF d % 4 = 1 \/ \E i \in 1..d : text[i] = Pad
        THEN <<Throws>>
        ELSE DecodeDigits(text, (d * 6) \div 8)

\* dataView.getInt16(i * 2, true): the signed value of two bytes, low first
getInt16(lo, hi) ==
    LET u == lo + 256 * hi
    IN  IF u >= 32768 THEN u - 65536 ELSE u

\* the Float32Array that onmessage fills from the decoded bytes: sample i is
\* getInt16(2 i) / 32768, held as the numerator
pcmToFloat32(uint8Array) ==
    [i \in 1..SampleCount(Len(uint8Array)) |->
        getInt16(uint8Array[2 * i - 1], uint8Array[2 * i])]

SeqsUpTo(S, n) == UNION {[1..m -> S] : m \in 0..n}

\* a chunk of captured samples handed to onaudioprocess
Chunk(samples) ==
    [stage |-> "chunk", raw |-> FALSE, input |-> samples, pcm |-> <<>>,
     b64 |-> <<>>, bytes |-> <<>>, output |-> <<>>]

\* a byte buffer handed to the base64 encoder
Buffer(bytes) ==
    [stage |-> "pcm", raw |-> TRUE, input |-> <<>>, pcm |-> bytes,
     b64 |-> <<>>, bytes |-> <<>>, output |-> <<>>]

\* the chunks explored: short chunks of any samples, in and out of [-1, 1],
\* the silent chunk of the size the processor delivers, and byte buffers
CodecInputs ==
    {Chunk(c) : c \in SeqsUpTo((-SampleGrid - 1)..(SampleGrid + 1), MaxSamples)}
    \cup {Chunk([i \in 1..ChunkSize |-> 0])}
    \cup {Buffer(b) : b \in SeqsUpTo(ByteValues, MaxBytes)}

hook == <<isConnected, isSpeaking, error, logs, audioContextRef, inputSourceRef,
          processorRef, sessionRef, nextStartTimeRef, videoIntervalRef, srcObject,
          apiKey, nCalls, pc, ctxState, ctxTime, cap, sched,
          pending, lastSend, sendFailed, teardownOps, torn, acked, budget,
          ignored, wire, reactions>>

CodecInit ==
    /\ isConnected = FALSE
    /\ isSpeaking = FALSE
    /\ error = NoError
    /\ logs = <<>>
    /\ audioContextRef = 0
    /\ inputSourceRef = 0
    /\ processorRef = 0
    /\ sessionRef = 0
    /\ nextStartTimeRef = 0
    /\ videoIntervalRef = 0
    /\ srcObject = 0
    /\ apiKey = TRUE
    /\ nCalls = 0
    /\ pc = [k \in Calls |-> "none"]
    /\ ctxState = [k \in Calls |-> "none"]
    /\ ctxTime = [k \in Calls |-> 0]
    /\ cap = [k \in Calls |-> NoCapture]
    /\ sched = <<>>
    /\ pending = {}
    /\ lastSend = 0
    /\ teardownOps = {}
    /\ torn = {}
    /\ acked = {}
    /\ budget = OneSession
    /\ sendFailed = FALSE
    /\ ignored = 0
    /\ wire = [k \in Calls |-> <<>>]
    /\ reactions = [k \in Calls |-> <<>>]
    /\ AppStart
    /\ codec \in CodecInputs

\* const pcmData = floatTo16BitPCM(inputData)
EncodePCM ==
    /\ codec.stage = "chunk"
    /\ codec' = [codec EXCEPT !.stage = "pcm", !.pcm = floatTo16BitPCM(codec.input)]
    /\ UNCHANGED <<hook, appVars>>

\* the binary string of the bytes, and b64 = btoa(binary)
EncodeBase64 ==
    /\ codec.stage = "pcm"
    /\ codec' = [codec EXCEPT !.stage = "text", !.b64 = btoa(codec.pcm)]
    /\ UNCHANGED <<hook, appVars>>

\* const uint8Array = base64ToUint8Array(audioData)
DecodeBase64 ==
    /\ codec.stage = "text"
    /\ LET uint8Array == atob(codec.b64)
       IN  codec' = IF uint8Array = <<Throws>>
                    THEN [codec EXCEPT !.stage = "failed"]
                    ELSE [codec EXCEPT !.stage = "bytes", !.bytes = uint8Array]
    /\ UNCHANGED <<hook, appVars>>

\* the loop that fills float32Array
DecodePCM ==
    /\ codec.stage = "bytes"
    /\ codec' = [codec EXCEPT !.stage = "samples",
                              !.output = pcmToFloat32(codec.bytes)]
    /\ UNCHANGED <<hook, appVars>>

CodecNext ==
    \/ EncodePCM
    \/ EncodeBase64
    \/ DecodeBase64
    \/ DecodePCM

CodecSpec == CodecInit /\ [][CodecNext]_vars

\* ---- the application: the preparation roadmap ----

MaxRoles == 2         \* suggested roles of a parsed resume
MaxQuiz  == 2         \* questions in the longest generated quiz or mock test

UPLOAD         == "Upload"
ANALYSIS       == "Analysis"
ROLE_SELECTION == "Role Selection"
TECHNICAL_PREP == "Technical Prep"
TECHNICAL_QUIZ == "Technical Quiz"
APTITUDE_JOBS  == "Aptitude & Jobs"
FULL_MOCK      == "Full Mock Test"
HR_INTERVIEW   == "HR Interview"

AppStep == {UPLOAD, ANALYSIS, ROLE_SELECTION, TECHNICAL_PREP, TECHNICAL_QUIZ,
            APTITUDE_JOBS, FULL_MOCK, HR_INTERVIEW}

\* completedSteps.includes(step)
includes(list, step) == \E i \in 1..Len(list) : list[i] = step

\* the menu of the sidebar: the path of an entry
MenuPath(step) ==
    CASE step = UPLOAD -> "/"
      [] step = ANALYSIS -> "/analysis"
      [] step = TECHNICAL_PREP -> "/technical-prep"
      [] step = TECHNICAL_QUIZ -> "/technical-quiz"
      [] step = APTITUDE_JOBS -> "/aptitude"
      [] step = FULL_MOCK -> "/full-mock"
      [] step = HR_INTERVIEW -> "/interview"

Menu == AppStep \ {ROLE_SELECTION}

\* faulty variant: the aptitude entry is enabled like the skill prep entry
MenuDisabledByRole(step) ==
    CASE step = UPLOAD -> FALSE
      [] step = ANALYSIS -> ~resume
      [] step = TECHNICAL_PREP -> targetRole = 0
      [] step = TECHNICAL_QUIZ ->
            ~includes(completedSteps, TECHNICAL_PREP) /\ targetRole = 0
      [] step = APTITUDE_JOBS -> targetRole = 0
      [] step = FULL_MOCK -> ~includes(completedSteps, APTITUDE_JOBS)
      [] step = HR_INTERVIEW -> ~includes(completedSteps, FULL_MOCK)

\* the menu of the sidebar: whether an entry is disabled
MenuDisabled(step) ==
    CASE step = UPLOAD -> FALSE
      [] step = ANALYSIS -> ~resume
      [] step = TECHNICAL_PREP -> targetRole = 0
      [] step = TECHNICAL_QUIZ ->
            ~includes(completedSteps, TECHNICAL_PREP) /\ targetRole = 0
      [] step = APTITUDE_JOBS -> ~includes(completedSteps, TECHNICAL_QUIZ)
      [] step = FULL_MOCK -> ~includes(completedSteps, APTITUDE_JOBS)
      [] step = HR_INTERVIEW -> ~includes(completedSteps, FULL_MOCK)

\* faulty variant: the step is appended whether or not it is in the list
completeStepAppend(prev, step) == Append(prev, step)

\* Array.from(new Set([...prev, step])): the first occurrence of every
\* element of [...prev, step], in order
completeStep(prev, step) ==
    LET all == Append(prev, step)
        first(i) == \A j \in 1..(i - 1) : all[j] # all[i]
        keep == {i \in 1..Len(all) : first(i)}
        \* the position in all of the n-th element kept
        at(n) == CHOOSE i \in keep : Cardinality({j \in keep : j <= i}) = n
    IN  [n \in 1..Cardinality(keep) |-> all[at(n)]]

\* several calls of completeStep in one handler
RECURSIVE completeSteps(_, _)
completeSteps(prev, steps) ==
    IF steps = <<>> THEN prev
    ELSE completeSteps(completeStep(prev, Head(steps)), Tail(steps))

\* navigate(to): the page shown is replaced. A page that is unmounted loses
\* its state and the result of a request it made is discarded; the mock test
\* page requests its questions when it is mounted with a target role
navigate(to) ==
    /\ path' = to
    /\ IF to = path
       THEN UNCHANGED <<quiz, loading, score, finished, currentQ,
                        questions, mockLoading, current, mockFinished>>
       ELSE /\ quiz' = 0 /\ loading' = FALSE /\ score' = 0
            /\ finished' = FALSE /\ currentQ' = 0
            /\ questions' = 0 /\ current' = 0 /\ mockFinished' = FALSE
            /\ mockLoading' = (to = "/full-mock" /\ targetRole # 0)

pageState == <<quiz, loading, score, finished, currentQ,
               questions, mockLoading, current, mockFinished>>
quizState == <<quiz, loading, score, finished, currentQ>>
mockState == <<questions, mockLoading, current, mockFinished>>

\* Sidebar: a click on an enabled entry of the menu
SidebarNavigate(step) ==
    /\ ~MenuDisabled(step)
    /\ navigate(MenuPath(step))
    /\ UNCHANGED <<resume, targetRole, completedSteps, saved, parsing, hook, codec>>

\* ResumeUploadPage.handleFileUpload: a file is chosen and sent to be parsed
UploadStart ==
    /\ path = "/"
    /\ ~parsing
    /\ parsing' = TRUE
    /\ UNCHANGED <<resume, targetRole, completedSteps, saved, path, pageState,
                   hook, codec>>

\* reader.onloadend, after parseResumeDocument resolved
UploadDone ==
    /\ parsing
    /\ parsing' = FALSE
    /\ resume' = TRUE
    /\ completedSteps' = completeStep(completedSteps, UPLOAD)
    /\ navigate("/analysis")
    /\ UNCHANGED <<targetRole, saved, hook, codec>>

\* parseResumeDocument rejected
UploadFailed ==
    /\ parsing
    /\ parsing' = FALSE
    /\ UNCHANGED <<resume, targetRole, completedSteps, saved, path, pageState,
                   hook, codec>>

\* ResumeUploadPage: "Continue Journey"
ContinueJourney ==
    /\ path = "/"
    /\ resume
    /\ navigate("/analysis")
    /\ UNCHANGED <<resume, targetRole, completedSteps, saved, parsing, hook, codec>>

\* AnalysisPage.handleSelectRole
handleSelectRole(role) ==
    /\ path = "/analysis"
    /\ resume
    /\ targetRole' = role
    /\ completedSteps' = completeSteps(completedSteps, <<ANALYSIS, ROLE_SELECTION>>)
    /\ navigate("/technical-prep")
    /\ UNCHANGED <<resume, saved, parsing, hook, codec>>

\* AnalysisPage: "Skip learning, go to practice"
SkipLearning(role) ==
    /\ path = "/analysis"
    /\ resume
    /\ targetRole' = role
    /\ completedSteps' = completeSteps(completedSteps,
          <<ANALYSIS, ROLE_SELECTION, TECHNICAL_PREP, TECHNICAL_QUIZ>>)
    /\ navigate("/aptitude")
    /\ UNCHANGED <<resume, saved, parsing, hook, codec>>

\* TechnicalPrepPage: "Mark Complete"
PrepComplete ==
    /\ path = "/technical-prep"
    /\ targetRole # 0
    /\ completedSteps' = completeStep(completedSteps, TECHNICAL_PREP)
    /\ navigate("/technical-quiz")
    /\ UNCHANGED <<resume, targetRole, saved, parsing, hook, codec>>

\* TechnicalQuizPage.startQuiz: "Start Assessment"
startQuiz ==
    /\ path = "/technical-quiz"
    /\ targetRole # 0
    /\ quiz = 0
    /\ ~loading
    /\ loading' = TRUE
    /\ UNCHANGED <<resume, targetRole, completedSteps, saved, path, parsing,
                   quiz, score, finished, currentQ, mockState, hook, codec>>

\* generateQuiz resolved with n questions
QuizLoaded(n) ==
    /\ loading
    /\ quiz' = n
    /\ loading' = FALSE
    /\ UNCHANGED <<resume, targetRole, completedSteps, saved, path, parsing,
                   score, finished, currentQ, mockState, hook, codec>>

\* generateQuiz rejected, or resolved with no question
QuizNotLoaded ==
    /\ loading
    /\ loading' = FALSE
    /\ UNCHANGED <<resume, targetRole, completedSteps, saved, path, parsing,
                   quiz, score, finished, currentQ, mockState, hook, codec>>

\* faulty variant: the last question is not recognised
handleAnswerPastEnd(correct) ==
    /\ path = "/technical-quiz"
    /\ targetRole # 0
    /\ quiz > 0
    /\ ~finished
    /\ score' = IF correct THEN score + 1 ELSE score
    /\ IF currentQ < quiz
       THEN /\ currentQ' = currentQ + 1
            /\ UNCHANGED <<finished, completedSteps>>
       ELSE /\ finished' = TRUE
            /\ completedSteps' = completeStep(completedSteps, TECHNICAL_QUIZ)
            /\ UNCHANGED currentQ
    /\ UNCHANGED <<resume, targetRole, saved, path, parsing, quiz, loading,
                   mockState, hook, codec>>

\* TechnicalQuizPage.handleAnswer: an option of question currentQ is chosen
handleAnswer(correct) ==
    /\ path = "/technical-quiz"
    /\ targetRole # 0
    /\ quiz > 0
    /\ ~finished
    /\ score' = IF correct THEN score + 1 ELSE score
    /\ IF currentQ < quiz - 1
       THEN /\ currentQ' = currentQ + 1
            /\ UNCHANGED <<finished, completedSteps>>
       ELSE /\ finished' = TRUE
            /\ completedSteps' = completeStep(completedSteps, TECHNICAL_QUIZ)
            /\ UNCHANGED currentQ
    /\ UNCHANGED <<resume, targetRole, saved, path, parsing, quiz, loading,
                   mockState, hook, codec>>

\* TechnicalQuizPage, finished view: "Retry Quiz"
RetryQuiz ==
    /\ path = "/technical-quiz"
    /\ targetRole # 0
    /\ quiz > 0
    /\ finished
    /\ quiz' = 0
    /\ finished' = FALSE
    /\ score' = 0
    /\ currentQ' = 0
    /\ UNCHANGED <<resume, targetRole, completedSteps, saved, path, parsing,
                   loading, mockState, hook, codec>>

\* TechnicalQuizPage, finished view: "Next Step"
NextStep ==
    /\ path = "/technical-quiz"
    /\ targetRole # 0
    /\ quiz > 0
    /\ finished
    /\ navigate("/aptitude")
    /\ UNCHANGED <<resume, targetRole, completedSteps, saved, parsing, hook, codec>>

\* AptitudePage.handleFinish: "Mark Complete"
handleFinish ==
    /\ path = "/aptitude"
    /\ completedSteps' = completeStep(completedSteps, APTITUDE_JOBS)
    /\ navigate("/full-mock")
    /\ UNCHANGED <<resume, targetRole, saved, parsing, hook, codec>>

\* generateFullMockTest resolved with n questions
MockLoaded(n) ==
    /\ mockLoading
    /\ questions' = n
    /\ mockLoading' = FALSE
    /\ UNCHANGED <<resume, targetRole, completedSteps, saved, path, parsing,
                   quizState, current, mockFinished, hook, codec>>

\* generateFullMockTest rejected, or resolved with no question
MockNotLoaded ==
    /\ mockLoading
    /\ mockLoading' = FALSE
    /\ UNCHANGED <<resume, targetRole, completedSteps, saved, path, parsing,
                   quizState, questions, current, mockFinished, hook, codec>>

\* FullMockPage.handleAnswer: an option of question current is chosen
FullMockHandleAnswer ==
    /\ path = "/full-mock"
    /\ targetRole # 0
    /\ ~mockLoading
    /\ ~mockFinished
    /\ questions > 0
    /\ IF current < questions - 1
       THEN /\ current' = current + 1
            /\ UNCHANGED <<mockFinished, completedSteps>>
       ELSE /\ mockFinished' = TRUE
            /\ completedSteps' = completeStep(completedSteps, FULL_MOCK)
            /\ UNCHANGED current
    /\ UNCHANGED <<resume, targetRole, saved, path, parsing, quizState,
                   questions, mockLoading, hook, codec>>

\* FullMockPage, finished view: "Start AI Video Interview"
StartInterview ==
    /\ path = "/full-mock"
    /\ targetRole # 0
    /\ ~mockLoading
    /\ mockFinished
    /\ navigate("/interview")
    /\ UNCHANGED <<resume, targetRole, completedSteps, saved, parsing, hook, codec>>

\* saveProgress: "Save Progress", shown when a resume is loaded
saveProgress ==
    /\ resume
    /\ saved' = [resume |-> resume, targetRole |-> targetRole,
                 completedSteps |-> completedSteps, present |-> TRUE]
    /\ UNCHANGED <<resume, targetRole, completedSteps, path, parsing, pageState,
                   hook, codec>>

\* resetProgress: "Reset All", shown when a resume is loaded, once confirmed
resetProgress ==
    /\ resume
    /\ saved' = NoSnapshot
    /\ resume' = FALSE
    /\ targetRole' = 0
    /\ completedSteps' = <<>>
    /\ navigate("/")
    /\ UNCHANGED <<parsing, hook, codec>>

AppInit ==
    /\ isConnected = FALSE
    /\ isSpeaking = FALSE
    /\ error = NoError
    /\ logs = <<>>
    /\ audioContextRef = 0
    /\ inputSourceRef = 0
    /\ processorRef = 0
    /\ sessionRef = 0
    /\ nextStartTimeRef = 0
    /\ videoIntervalRef = 0
    /\ srcObject = 0
    /\ apiKey = TRUE
    /\ nCalls = 0
    /\ pc = [k \in Calls |-> "none"]
    /\ ctxState = [k \in Calls |-> "none"]
    /\ ctxTime = [k \in Calls |-> 0]
    /\ cap = [k \in Calls |-> NoCapture]
    /\ sched = <<>>
    /\ pending = {}
    /\ lastSend = 0
    /\ teardownOps = {}
    /\ torn = {}
    /\ acked = {}
    /\ budget = OneSession
    /\ sendFailed = FALSE
    /\ ignored = 0
    /\ wire = [k \in Calls |-> <<>>]
    /\ reactions = [k \in Calls |-> <<>>]
    /\ codec = NoChunk
    /\ AppStart

AppNext ==
    \/ \E step \in Menu : SidebarNavigate(step)
    \/ UploadStart
    \/ UploadDone
    \/ UploadFailed
    \/ ContinueJourney
    \/ \E role \in 1..MaxRoles : handleSelectRole(role)
    \/ \E role \in 1..MaxRoles : SkipLearning(role)
    \/ PrepComplete
    \/ startQuiz
    \/ \E n \in 1..MaxQuiz : QuizLoaded(n)
    \/ QuizNotLoaded
    \/ \E correct \in BOOLEAN : handleAnswer(correct)
    \/ RetryQuiz
    \/ NextStep
    \/ handleFinish
    \/ \E n \in 1..MaxQuiz : MockLoaded(n)
    \/ MockNotLoaded
    \/ FullMockHandleAnswer
    \/ StartInterview
    \/ saveProgress
    \/ resetProgress

AppSpec == AppInit /\ [][AppNext]_vars

\* ---- properties ----

\* the connection of call k was opened by ai.live.connect and no disconnect()
\* has run since: Connecting (not yet acknowledged) or Active
SessionLive(k) == pc[k] \in {"connecting", "open"} /\ k \notin torn

\* C1: connect() is valid only from Idle: a connect() invoked while a session
\* is Connecting or Active is ignored, so it creates no second output audio
\* context and requests no second capture pipeline or connection.
C1_ConnectOnlyFromIdle ==
    [][(nCalls' = nCalls + 1 /\ \E j \in Calls : SessionLive(j))
          => /\ UNCHANGED <<ctxState, audioContextRef>>
             /\ pc'[nCalls'] # "awaitMedia"]_vars

\* the segments i and i+1 belong to one session: no disconnect() ran between
\* them
SameSession(i) == i < Len(sched) /\ ~sched[i].cut

EndOf(i) == sched[i].start + sched[i].dur

\* C2: every segment is scheduled at max(output clock, cursor) and the cursor
\* then becomes start + duration; so within a session every segment starts
\* no earlier than the end of the segment scheduled before it.
C2_ScheduledAtMaxOfClockAndCursor ==
    /\ \A i \in 1..Len(sched) :
          /\ sched[i].start = Max(sched[i].now, sched[i].cursor)
          /\ sched[i].dur > 0
    /\ \A i \in 1..Len(sched) :
          SameSession(i) =>
             /\ sched[i + 1].cursor = EndOf(i)
             /\ sched[i + 1].start >= EndOf(i)
    /\ (sched # <<>> /\ ~sched[Len(sched)].cut) =>
          nextStartTimeRef = EndOf(Len(sched))

C2_Witness ==
    /\ Len(sched) = 3
    /\ SameSession(1) /\ SameSession(2)
    /\ sched[2].now < sched[2].cursor
    /\ sched[3].now > sched[3].cursor

\* C3: three segments of durations d1, d2, d3, each arriving while the one
\* before it has not finished playing, start at t0, t0 + d1, t0 + d1 + d2.
C3_GaplessSequentialStarts ==
    \A i \in 1..Len(sched) :
       (/\ i + 2 <= Len(sched)
        /\ SameSession(i) /\ SameSession(i + 1)
        /\ sched[i + 1].now < EndOf(i)
        /\ sched[i + 2].now < EndOf(i + 1))
       => /\ sched[i + 1].start = sched[i].start + sched[i].dur
          /\ sched[i + 2].start = sched[i].start + sched[i].dur + sched[i + 1].dur

C3_Witness ==
    /\ Len(sched) = 3
    /\ SameSession(1) /\ SameSession(2)
    /\ sched[1].now < sched[2].now /\ sched[2].now < sched[3].now
    /\ sched[2].now < EndOf(1) /\ sched[3].now < EndOf(2)
    /\ sched[1].dur # sched[2].dur
    /\ sched[3].start = sched[1].start + sched[1].dur + sched[2].dur

\* the step is the "ended" callback of segment i, and its check found the
\* clock of the segment's output context at or past the cursor
EndedCheckPassed(i) ==
    /\ i \in pending
    /\ pending' = pending \ {i}
    /\ CurrentTime(sched[i].ctx) >= EndOf(i)
    /\ CurrentTime(sched[i].ctx) >= nextStartTimeRef

\* C4: the speaking flag is true once a segment is enqueued; short of
\* disconnect() it goes from true to false only in a segment-ended check that
\* finds output clock >= cursor.
C4_SpeakingClearedOnlyByEndedCheck ==
    [][/\ Len(sched') > Len(sched) => isSpeaking'
       /\ (isSpeaking /\ ~isSpeaking') =>
             \/ Disconnect
             \/ \E i \in 1..Len(sched) : EndedCheckPassed(i)]_vars

C4_Witness ==
    /\ Len(sched) >= 2
    /\ torn = {}
    /\ isConnected
    /\ pending = {}
    /\ ~isSpeaking

\* C5: connect() -> open -> segments -> disconnect() leaves isConnected
\* false, isSpeaking false and the playback cursor 0.
C5_DisconnectReturnsToIdle ==
    [][Disconnect => (~isConnected' /\ ~isSpeaking' /\ nextStartTimeRef' = 0)]_vars

C5_Witness ==
    /\ nCalls = 1 /\ 1 \in acked /\ 1 \in torn
    /\ sched # <<>> /\ sched[Len(sched)].cut
    /\ sched[Len(sched)].start + sched[Len(sched)].dur > 0
    /\ ~isConnected /\ ~isSpeaking /\ nextStartTimeRef = 0

\* call k holds no open resource
Released(k) ==
    /\ ctxState[k] # "running"
    /\ ~cap[k].tracks /\ ~cap[k].src /\ ~cap[k].proc /\ ~cap[k].timer

\* the controller is Idle: no connect() is in progress, a disconnect() has
\* run after every call made so far, and nothing was acquired since (no call
\* made yet, or a completed disconnect())
Idle ==
    /\ ~isConnected
    /\ \A k \in Calls :
          /\ pc[k] # "awaitMedia"
          /\ pc[k] # "none" => k \in torn
          /\ Released(k)

\* C6: disconnect() while Idle changes no observable field, leaves the cursor
\* unchanged and performs no operation on a track, node, timer or context.
C6_DisconnectIdleIsNoOp ==
    [][(Idle /\ Disconnect)
          => /\ UNCHANGED <<observable, nextStartTimeRef>>
             /\ teardownOps' = {}]_vars

\* the decoded byte buffer of m is malformed: invalid base64 text, or an odd
\* number of bytes
Malformed(m) ==
    /\ HasAudioData(m)
    /\ \/ base64ToUint8Array(m) = Throws
       \/ base64ToUint8Array(m) % 2 = 1

\* C7: a message whose decoded buffer is malformed is dropped: the session
\* stays as it is, the cursor is unchanged and nothing is scheduled.
C7_MalformedAudioDropped ==
    [][\A k \in Calls : \A m \in Messages :
          (Malformed(m) /\ OnMessage(k, m))
             => UNCHANGED <<isConnected, pc, nextStartTimeRef, sched, pending>>]_vars

\* C8: isConnected is true only after the remote endpoint acknowledged the
\* open, and no outbound media message is dispatched for a call before its
\* acknowledgement.
C8_ActiveOnlyAfterAcknowledgement ==
    /\ isConnected => acked # {}
    /\ lastSend # 0 => lastSend \in acked
    /\ \A k \in Calls : pc[k] \in {"awaitMedia", "connecting"} => k \notin acked

C8_Witness ==
    /\ isConnected
    /\ lastSend # 0
    /\ pc[lastSend] = "open"

\* C9: without the API credential connect() sets the error, leaves
\* isConnected false, and opens no connection, requests no device and creates
\* no audio context.
C9_MissingCredentialIsTerminal ==
    ~apiKey =>
       /\ ~isConnected
       /\ nCalls > 0 => error = KeyMissingMessage
       /\ audioContextRef = 0 /\ sessionRef = 0 /\ srcObject = 0
       /\ \A k \in Calls :
             /\ pc[k] \in {"none", "failed"}
             /\ ctxState[k] = "none"
             /\ cap[k] = NoCapture

C9_Witness ==
    /\ ~apiKey
    /\ nCalls > 0
    /\ error = KeyMissingMessage

\* C10: when device access is denied connect() sets the error, leaves
\* isConnected false, opens no connection, does not retry, and holds no open
\* resource of the failed attempt.
C10_DeviceDeniedLeavesNothingOpen ==
    [][\A k \in Calls :
          MediaDenied(k)
             => /\ error' # NoError
                /\ ~isConnected'
                /\ pc'[k] = "failed"
                /\ Released(k)']_vars

\* call k is the Active session: acknowledged, shown as connected, and no
\* disconnect() has run since
Active(k) == pc[k] = "open" /\ isConnected /\ k \notin torn

\* C11: a remote close or a connection error while Active leaves isConnected
\* false and a user-visible error message set, and opens no new connection.
C11_RemoteFailureSurfacesError ==
    [][\A k \in Calls :
          (Active(k) /\ (OnClose(k) \/ OnError(k)))
             => /\ ~isConnected'
                /\ error' # NoError
                /\ nCalls' = nCalls]_vars

\* C12: a remote close or a transport error tears the session down: the
\* video timer is stopped, the capture graph disconnected, the tracks stopped
\* and the cursor reset, so nothing more is dispatched for that session.
C12_ConnectionFailureTearsDown ==
    [][\A k \in Calls :
          (SessionLive(k) /\ (OnClose(k) \/ OnError(k)))
             => /\ ~cap'[k].timer
                /\ ~cap'[k].src /\ ~cap'[k].proc
                /\ ~cap'[k].tracks
                /\ nextStartTimeRef' = 0]_vars

\* C13: once disconnect() has run for a call, Connecting or Active, the call
\* holds no timer, no connected audio node, no live track and no running
\* output context, so it dispatches no audio chunk and no video frame.
C13_DisconnectReleasesEverything ==
    \A k \in torn : Released(k)

\* C14: every acknowledged open appends a connect entry to the log, every
\* disconnect() from a non-Idle state appends a closure entry, and every
\* connection-level or connect-time error appends an error entry.
C14_LogRecordsLifecycle ==
    [][/\ (\E k \in Calls : OnOpen(k)) => logs' = Append(logs, ConnectedLog)
       /\ (Disconnect /\ ~Idle) => Len(logs') = Len(logs) + 1
       /\ (\/ \E k \in Calls : OnError(k) \/ MediaDenied(k)
           \/ Connect /\ ~apiKey) => Len(logs') = Len(logs) + 1]_vars

\* C15: an outbound send that fails neither stops capture nor ends the
\* session, and the failure is recorded in the log or in the error field.
C15_SendFailureIsolatedAndRecorded ==
    [][\A k \in Calls :
          ((AudioProcess(k) \/ VideoTick(k)) /\ sendFailed')
             => /\ UNCHANGED <<isConnected, cap, pc>>
                /\ (logs' # logs \/ error' # error)]_vars

\* segment i was scheduled before a disconnect() ran
Superseded(i) == \E j \in i..Len(sched) : sched[j].cut

\* C19: after disconnect() no late onopen, onmessage, onclose, onerror or
\* segment-ended callback of the torn-down session changes isConnected,
\* isSpeaking, the cursor or the capture timers.
C19_LateCallbacksMutateNothing ==
    [][/\ \A k \in torn :
             (\/ OnOpen(k) \/ OnClose(k) \/ OnError(k)
              \/ \E m \in Messages : OnMessage(k, m))
                => UNCHANGED <<isConnected, isSpeaking, nextStartTimeRef,
                               videoIntervalRef, cap>>
       /\ \A i \in 1..Len(sched) :
             (Superseded(i) /\ OnEnded(i)) => UNCHANGED isSpeaking]_vars

\* C20: the playback cursor never decreases except in disconnect(), which
\* resets it to 0: every other step (an inbound message, a segment-ended
\* event, a pause of the clock between segments) leaves it where it is or
\* raises it.
C20_CursorMonotoneUntilDisconnect ==
    [][nextStartTimeRef' < nextStartTimeRef
          => (Disconnect /\ nextStartTimeRef' = 0)]_vars

\* the model paused (segment 1 ended, the clock ran past the cursor), resumed
\* with segment 2, and the connection was then closed by the remote endpoint
C20_Witness ==
    /\ Len(sched) >= 2
    /\ torn = {}
    /\ 1 \notin pending
    /\ sched[2].now > sched[2].cursor
    /\ nextStartTimeRef = EndOf(Len(sched))
    /\ \E k \in Calls : pc[k] = "closed"

Abs(x) == IF x >= 0 THEN x ELSE -x

\* a captured chunk has been encoded, sent as text and decoded again
RoundTripped == codec.stage = "samples" /\ ~codec.raw

\* the distance between the i-th sample of the chunk and its decoded value,
\* in units of 1 / (32768 * SampleGrid)
RoundTripError(i) == Abs(codec.input[i] * 32768 - codec.output[i] * SampleGrid)

InRange(n) == -SampleGrid <= n /\ n <= SampleGrid

C17_Base64RoundTrip ==
    /\ codec.stage # "failed"
    /\ codec.stage \in {"bytes", "samples"} =>
          /\ Len(codec.bytes) = Len(codec.pcm)
          /\ \A i \in 1..Len(codec.pcm) : codec.bytes[i] = codec.pcm[i]

C17_Witness ==
    /\ codec.stage = "bytes"
    /\ codec.raw
    /\ Len(codec.pcm) = 4
    /\ codec.pcm[1] = 255 /\ codec.pcm[4] = 128
    /\ codec.b64[7] = Pad /\ codec.b64[8] = Pad
    /\ codec.bytes = codec.pcm

\* C18: a chunk of n samples encodes to 2n bytes and to a base64 text of
\* ceil(2n/3)*4 characters, and a silent chunk decodes to n zero samples.
C18_ChunkLengthsAndSilence ==
    ~codec.raw =>
       LET n == Len(codec.input)
       IN  /\ codec.stage \in {"pcm", "text", "bytes", "samples"}
                => Len(codec.pcm) = 2 * n
           /\ codec.stage \in {"text", "bytes", "samples"}
                => Len(codec.b64) = ((2 * n + 2) \div 3) * 4
           /\ (codec.stage = "samples" /\ \A i \in 1..n : codec.input[i] = 0)
                => /\ Len(codec.output) = n
                   /\ \A i \in 1..n : codec.output[i] = 0

C18_Witness ==
    /\ RoundTripped
    /\ Len(codec.input) = ChunkSize
    /\ Len(codec.pcm) = 8192
    /\ Len(codec.b64) = 10924
    /\ Len(codec.output) = ChunkSize
    /\ \A i \in 1..ChunkSize : codec.output[i] = 0

\* C21: an inbound message without an inline audio payload changes none of
\* isConnected, isSpeaking, error, logs and the cursor, and schedules nothing.
C21_MessageWithoutAudioIgnored ==
    [][ignored' # ignored
          => UNCHANGED <<isConnected, isSpeaking, error, logs, nextStartTimeRef,
                         sched, pending>>]_vars

\* a message without audio was handled in a session that is playing a segment
C21_Witness ==
    /\ ignored > 0
    /\ isConnected /\ isSpeaking
    /\ pending # {}

\* C22: the sends of the audio chunks of a call are invoked in the order the
\* chunks were captured.
C22_AudioDispatchedInCaptureOrder ==
    \A k \in Calls :
       \A i, j \in 1..Len(wire[k]) : i < j => wire[k][i] < wire[k][j]

C22_Witness ==
    \E k \in Calls :
       /\ Len(wire[k]) = MaxChunks
       /\ wire[k][1] = 1
       /\ sendFailed

\* C23: no captured chunk or frame waits between its capture callback and
\* the transport, whatever the state of the session.
C23_CaptureNeverBuffered ==
    \A k \in Calls : Len(reactions[k]) = 0

\* chunks were captured, the last one after the connection had closed
C23_Witness ==
    \E k \in Calls :
       /\ pc[k] = "closed"
       /\ lastSend = k
       /\ Len(wire[k]) = MaxChunks
       /\ reactions[k] = <<>>

\* C24: whenever isSpeaking is true, isConnected is true.
C24_SpeakingImpliesConnected ==
    isSpeaking => isConnected

\* C25: isSpeaking never stays true for good: whenever it is true, the
\* segment-ended callback that will clear it once the clock has passed the
\* cursor is still to come.
C25_SpeakingEventuallyCleared ==
    isSpeaking => pending # {}

\* C26: from an empty state and through the controls of the application, the
\* completed steps respect the pipeline: FULL_MOCK completed implies
\* APTITUDE_JOBS completed, APTITUDE_JOBS completed implies TECHNICAL_QUIZ
\* completed, TECHNICAL_QUIZ completed implies a target role is selected; the
\* interview entry of the sidebar is enabled only when FULL_MOCK is completed
\* (so the interview page is shown only then).
C26_StepsRespectPipeline ==
    /\ includes(completedSteps, FULL_MOCK) => includes(completedSteps, APTITUDE_JOBS)
    /\ includes(completedSteps, APTITUDE_JOBS) => includes(completedSteps, TECHNICAL_QUIZ)
    /\ includes(completedSteps, TECHNICAL_QUIZ) => targetRole # 0
    /\ ~MenuDisabled(HR_INTERVIEW) => includes(completedSteps, FULL_MOCK)
    /\ path = "/interview" => includes(completedSteps, FULL_MOCK)

C26_Witness ==
    /\ path = "/interview"
    /\ ~MenuDisabled(HR_INTERVIEW)
    /\ includes(completedSteps, FULL_MOCK)
    /\ ~includes(completedSteps, TECHNICAL_PREP)

\* the questions of the running quiz answered so far
Answered == IF finished THEN currentQ + 1 ELSE currentQ

\* a step of the quiz page in which an answer is given
AnswerStep == path = "/technical-quiz" /\ quiz > 0 /\ quiz' = quiz /\ ~finished
              /\ <<score, currentQ, finished>>' # <<score, currentQ, finished>>

\* C27: in the technical quiz 0 <= score <= answered <= quiz length and
\* currentQ is a valid index of a question; an answer marks the quiz finished,
\* with TECHNICAL_QUIZ completed, exactly when it answers the last question
\* (any other answer moves to the next question and completes nothing); Retry,
\* the step that empties the quiz, puts score, currentQ and finished back to
\* their initial values.
C27_QuizScoreAndProgress ==
    [][ /\ (0 <= score /\ score <= Answered /\ Answered <= quiz)'
        /\ (quiz > 0 => currentQ \in 0..(quiz - 1))'
        /\ (finished => quiz > 0 /\ Answered = quiz
                        /\ includes(completedSteps, TECHNICAL_QUIZ))'
        /\ AnswerStep =>
              /\ finished' <=> (currentQ = quiz - 1)
              /\ finished' => includes(completedSteps', TECHNICAL_QUIZ)
              /\ ~finished' => (currentQ' = currentQ + 1
                                /\ completedSteps' = completedSteps)
              /\ score' \in {score, score + 1}
        /\ (quiz > 0 /\ quiz' = 0) => (score' = 0 /\ currentQ' = 0 /\ ~finished')
      ]_vars

C27_Witness ==
    /\ path = "/technical-quiz"
    /\ quiz = MaxQuiz
    /\ finished
    /\ score = MaxQuiz
    /\ currentQ = MaxQuiz - 1
    /\ includes(completedSteps, TECHNICAL_QUIZ)

NoDuplicate(list) == \A i, j \in 1..Len(list) : i # j => list[i] # list[j]

\* C28: completedSteps never holds a step twice; completing a step that is
\* completed leaves the list as it is; a completed step stays completed in
\* every step that does not empty the list, and the step that drops one is
\* resetProgress: it empties completedSteps and clears resume, the target
\* role and the persisted snapshot together.
C28_CompleteStepIdempotentMonotone ==
    [][ /\ NoDuplicate(completedSteps')
        /\ \A step \in AppStep :
              includes(completedSteps', step) =>
                  completeStep(completedSteps', step) = completedSteps'
        /\ (\E step \in AppStep : includes(completedSteps, step)
                                  /\ ~includes(completedSteps', step))
              => (/\ completedSteps' = <<>>
                  /\ resume /\ ~resume'
                  /\ targetRole' = 0
                  /\ saved' = NoSnapshot)
      ]_vars

\* the last answer of a quiz completed TECHNICAL_QUIZ when it was completed
C28_Witness ==
    /\ path = "/technical-quiz"
    /\ finished
    /\ includes(completedSteps, APTITUDE_JOBS)
    /\ NoDuplicate(completedSteps)
    /\ Len(completedSteps) >= 6

====
